---- MODULE Spec2Model ----
(***************************************************************************)
(* Model of the NL -> SQL explorer (src/app_streamlit_upload_db_ui.py).    *)
(*                                                                         *)
(* Text is modelled as a sequence of lexemes.  A lexeme is a fixed run of  *)
(* characters that consists either only of word characters (letters,       *)
(* digits, underscore: "SELECT", "x", "100") or only of non-word           *)
(* characters (" ", ";", "$", "*", the three-backtick fence).  The text a  *)
(* sequence stands for is the concatenation of its lexemes, so two         *)
(* adjacent word lexemes form ONE word ("x" next to "DROP" is the word     *)
(* "xDROP"), exactly as the regular expressions of the source see it.      *)
(* No keyword of the source arises from joining or splitting the lexemes   *)
(* used here, so a keyword occurs as a whole word exactly where its        *)
(* lexeme stands between non-word lexemes or the ends of the text.         *)
(***************************************************************************)
EXTENDS Integers, Sequences, FiniteSets, TLC

VARIABLES
    \* ---- the running application (one Streamlit session) ----
    env_key,          \* COHERE_API_KEY of the process environment / .env
    COHERE_API_KEY,   \* script global, value at the end of the last script run
    co,               \* key the script global co (cohere.Client) was built with
    api_key_input,    \* widget state of the "Cohere API Key" text input
    question,         \* widget state of the question text area
    tables,           \* tables of the in-memory SQLite connection
    button,           \* what triggered the last script run
    run,              \* what the last script run did (calls made, output shown)
    updated_key,      \* history: key last supplied through "Update API Key"
    \* ---- enforce_read_only applied to a drawn candidate ----
    guard_pc, sql, safe, again,
    \* ---- extract_sql applied to a drawn response ----
    extract_pc, text, extracted

appVars == <<env_key, COHERE_API_KEY, co, api_key_input, question, tables,
             button, run, updated_key>>
guardVars == <<guard_pc, sql, safe, again>>
extractVars == <<extract_pc, text, extracted>>
vars == <<appVars, guardVars, extractVars>>

----------------------------------------------------------------------------
(* Lexemes and character classes                                           *)

\* the markdown code fence: three backtick characters, as one lexeme
Fence == "<fence>"

\* lexemes made of non-word characters; every other lexeme is a word
NonWordLexemes == {" ", "\n", ";", "$", "*", "=", "(", ")", Fence}

Whitespace == {" ", "\n"}

IsWordLex(a) == a \notin NonWordLexemes

\* re.IGNORECASE: the upper-case spelling of a lexeme
Fold(a) ==
    CASE a = "select" -> "SELECT"
      [] a = "limit"  -> "LIMIT"
      [] a = "Limit"  -> "LIMIT"
      [] a = "update" -> "UPDATE"
      [] a = "Drop"   -> "DROP"
      [] a = "insert" -> "INSERT"
      [] a = "sql"    -> "SQL"
      [] a = "Sql"    -> "SQL"
      [] OTHER        -> a

\* is the character just left / right of lexeme i a word character
\* (the ends of the text count as non-word, as for \b)
WordBefore(s, i) == i > 1 /\ IsWordLex(s[i - 1])
WordAfter(s, i) == i < Len(s) /\ IsWordLex(s[i + 1])

\* \bW\b for a word lexeme at i: W is the whole word
WholeWordAt(s, i) == ~WordBefore(s, i) /\ ~WordAfter(s, i)

RECURSIVE rstrip(_)
\* str.rstrip(): trailing whitespace removed
rstrip(s) ==
    IF s # <<>> /\ s[Len(s)] \in Whitespace
    THEN rstrip(SubSeq(s, 1, Len(s) - 1))
    ELSE s

RECURSIVE lstrip(_)
lstrip(s) ==
    IF s # <<>> /\ s[1] \in Whitespace THEN lstrip(Tail(s)) ELSE s

\* str.strip()
strip(s) == lstrip(rstrip(s))

RECURSIVE rstrip_semicolon(_)
\* str.rstrip(";"): every trailing semicolon removed
rstrip_semicolon(s) ==
    IF s # <<>> /\ s[Len(s)] = ";"
    THEN rstrip_semicolon(SubSeq(s, 1, Len(s) - 1))
    ELSE s

----------------------------------------------------------------------------
(* SQL safety: FORBIDDEN and enforce_read_only                             *)

ForbiddenWords ==
    {"INSERT", "UPDATE", "DELETE", "ALTER", "DROP", "TRUNCATE", "VACUUM",
     "CREATE", "GRANT", "REVOKE", "COPY"}

\* one alternative of FORBIDDEN matches at lexeme i, between two \b
ForbiddenAt(s, i) ==
    \/ Fold(s[i]) \in ForbiddenWords /\ WholeWordAt(s, i)
    \/ s[i] = ";" /\ WordBefore(s, i) /\ WordAfter(s, i)
    \/ /\ s[i] = "$"
       /\ i < Len(s)
       /\ s[i + 1] = "$"
       /\ WordBefore(s, i)
       /\ WordAfter(s, i + 1)

ForbiddenAtCaseSensitive(s, i) ==
    \/ s[i] \in ForbiddenWords /\ WholeWordAt(s, i)
    \/ s[i] = ";" /\ WordBefore(s, i) /\ WordAfter(s, i)

FORBIDDEN_search_case_sensitive(s) ==
    \E i \in 1..Len(s) : ForbiddenAtCaseSensitive(s, i)

\* FORBIDDEN.search(sql)
FORBIDDEN_search(s) == \E i \in 1..Len(s) : ForbiddenAt(s, i)

\* sql.count(";")
count_semicolon(s) == Cardinality({i \in 1..Len(s) : s[i] = ";"})

match_anything(s) == TRUE

\* re.match(r"^\s*SELECT\b", sql, re.IGNORECASE)
match_select(s) ==
    \E k \in 1..Len(s) :
        /\ \A j \in 1..(k - 1) : s[j] \in Whitespace
        /\ Fold(s[k]) = "SELECT"
        /\ ~WordAfter(s, k)

search_limit_never(s) == FALSE

\* re.search(r"\bLIMIT\b", sql, re.IGNORECASE)
search_limit(s) ==
    \E i \in 1..Len(s) : Fold(s[i]) = "LIMIT" /\ WholeWordAt(s, i)

LIMIT_100 == <<" ", "LIMIT", " ", "100">>

append_limit_keep_semicolon(s) == rstrip(s) \o LIMIT_100

\* sql.rstrip().rstrip(";") + " LIMIT 100"
append_limit(s) == rstrip_semicolon(rstrip(s)) \o LIMIT_100

ErrForbidden == "Forbidden keywords detected in SQL"
ErrMultiple == "Multiple statements detected; only SELECT allowed"
ErrNotSelect == "Only SELECT queries allowed"

\* raise ValueError(msg) / return sql
Raise(msg) == [ok |-> FALSE, sql |-> <<>>, error |-> msg]
Return(s) == [ok |-> TRUE, sql |-> s, error |-> ""]

enforce_read_only_shape_first(s) ==
    IF ~match_select(s) THEN Raise(ErrNotSelect)
    ELSE IF count_semicolon(s) > 1 THEN Raise(ErrMultiple)
    ELSE IF FORBIDDEN_search(s) THEN Raise(ErrForbidden)
    ELSE IF ~search_limit(s) THEN Return(append_limit(s))
    ELSE Return(s)

enforce_read_only(s) ==
    IF FORBIDDEN_search(s) THEN Raise(ErrForbidden)
    ELSE IF count_semicolon(s) > 1 THEN Raise(ErrMultiple)
    ELSE IF ~match_select(s) THEN Raise(ErrNotSelect)
    ELSE IF ~search_limit(s) THEN Return(append_limit(s))
    ELSE Return(s)

----------------------------------------------------------------------------
(* Extraction of the candidate from the response: extract_sql              *)

\* where re.search can start a match of the opening "<fence>sql" that a
\* later fence closes
FenceStarts(t) ==
    {i \in 1..Len(t) :
        /\ i + 1 <= Len(t)
        /\ t[i] = Fence
        /\ Fold(t[i + 1]) = "SQL"
        /\ \E j \in (i + 2)..Len(t) : t[j] = Fence}

Min(S) == CHOOSE x \in S : \A y \in S : x <= y
Max(S) == CHOOSE x \in S : \A y \in S : x >= y

\* \s* (greedy): first position at or after k that holds no whitespace
SkipWhitespace(t, k) ==
    Min({n \in k..(Len(t) + 1) : n > Len(t) \/ t[n] \notin Whitespace})

\* (.*?) followed by the fence: the nearest fence at or after k
NearestFence(t, k) == Min({j \in k..Len(t) : t[j] = Fence})

FarthestFence(t, k) == Max({j \in k..Len(t) : t[j] = Fence})

\* m.group(1) of the leftmost match
Group1(t) ==
    LET i == Min(FenceStarts(t))
        k == SkipWhitespace(t, i + 2)
    IN  SubSeq(t, k, NearestFence(t, k) - 1)

extract_sql_greedy(t) ==
    IF FenceStarts(t) # {}
    THEN LET i == Min(FenceStarts(t))
             k == SkipWhitespace(t, i + 2)
         IN  strip(SubSeq(t, k, FarthestFence(t, k) - 1))
    ELSE strip(t)

extract_sql_unstripped(t) ==
    IF FenceStarts(t) # {} THEN Group1(t) ELSE t

\* m = re.search(r"<fence>sql\s*(.*?)<fence>", text, IGNORECASE | DOTALL)
\* return m.group(1).strip() if m else text.strip()
extract_sql(t) ==
    IF FenceStarts(t) # {} THEN strip(Group1(t)) ELSE strip(t)

----------------------------------------------------------------------------
(* Candidates and responses the checks draw from                           *)

\* longest candidate enumerated exhaustively, in lexemes
MaxLen == 4

\* longest generation response enumerated exhaustively, in lexemes
MaxRespLen == 5

GuardAlphabet ==
    {"SELECT", "select", "DROP", "update", "LIMIT", "limit", " ", ";", "x", "$"}

SeqsUpTo(A, n) == UNION {[1..k -> A] : k \in 0..n}

\* "SELECT * FROM users"
Scenario1 == <<"SELECT", " ", "*", " ", "FROM", " ", "users">>
\* "DROP TABLE users"
Scenario2 == <<"DROP", " ", "TABLE", " ", "users">>
\* "SELECT * FROM a; SELECT * FROM b"
Scenario3 ==
    <<"SELECT", " ", "*", " ", "FROM", " ", "a", ";", " ",
      "SELECT", " ", "*", " ", "FROM", " ", "b">>
\* "update users set age=1"
Scenario4 == <<"update", " ", "users", " ", "set", " ", "age", "=", "1">>
\* "SELECT name FROM t LIMIT 5"
Scenario5 == <<"SELECT", " ", "name", " ", "FROM", " ", "t", " ", "LIMIT", " ", "5">>
\* "SELECT * FROM (SELECT * FROM t LIMIT 5) LIMIT 3"
NestedLimit ==
    <<"SELECT", " ", "*", " ", "FROM", " ", "(", "SELECT", " ", "*", " ",
      "FROM", " ", "t", " ", "LIMIT", " ", "5", ")", " ", "LIMIT", " ", "3">>
\* "insert into t select 1;"
InsertSelect == <<"insert", " ", "into", " ", "t", " ", "select", " ", "1", ";">>
\* "\n select * from t ;\n"
PaddedSelect == <<"\n", " ", "select", " ", "*", " ", "from", " ", "t", " ", ";", "\n">>

Scenarios ==
    {Scenario1, Scenario2, Scenario3, Scenario4, Scenario5, NestedLimit,
     InsertSelect, PaddedSelect}

GuardInputs == SeqsUpTo(GuardAlphabet, MaxLen) \cup Scenarios

ExtractAlphabet == {Fence, "sql", "SQL", " ", "\n", "x", "py"}

\* "Here is the query:\n<fence>sql\nSELECT * FROM users;\n<fence>\nDone <fence>py x<fence>"
FencedAnswer ==
    <<"Here", " ", "is", " ", "the", " ", "query", "\n", Fence, "sql", "\n",
      "SELECT", " ", "*", " ", "FROM", " ", "users", ";", "\n", Fence, "\n",
      "Done", " ", Fence, "py", " ", "x", Fence>>
\* " SELECT * FROM users\n"
BareAnswer == <<" ", "SELECT", " ", "*", " ", "FROM", " ", "users", "\n">>

ExtractInputs ==
    SeqsUpTo(ExtractAlphabet, MaxRespLen) \cup {FencedAnswer, BareAnswer}

NoResult == [ok |-> FALSE, sql |-> <<>>, error |-> "not run"]

----------------------------------------------------------------------------
(* Idle values of the parts a specification does not exercise              *)

NoKey == "<none>"
NoText == <<"<none>">>

IdleRun ==
    [svc |-> "none", eng |-> "none", gen_calls |-> 0, gen_key |-> NoKey,
     prompt |-> [schema |-> {}, question |-> ""],
     response |-> NoText, candidate |-> NoText, guard_calls |-> 0,
     guard |-> NoResult, exec_calls |-> 0, executed |-> NoText,
     sql_shown |-> FALSE, result_shown |-> FALSE, info_shown |-> FALSE,
     errors |-> <<>>, uncaught |-> FALSE]

AppIdle ==
    /\ env_key = ""
    /\ COHERE_API_KEY = ""
    /\ co = ""
    /\ api_key_input = ""
    /\ question = ""
    /\ tables = {}
    /\ button = "start"
    /\ run = IdleRun
    /\ updated_key = NoKey

GuardIdle ==
    /\ guard_pc = "idle"
    /\ sql = <<>>
    /\ safe = NoResult
    /\ again = NoResult

ExtractIdle ==
    /\ extract_pc = "idle"
    /\ text = <<>>
    /\ extracted = <<>>

----------------------------------------------------------------------------
(* enforce_read_only as a function: a candidate is drawn, the Guard is     *)
(* applied to it, and then applied once more to what it returned           *)

InitGuard ==
    /\ guard_pc = "input"
    /\ sql \in GuardInputs
    /\ safe = NoResult
    /\ again = NoResult
    /\ AppIdle
    /\ ExtractIdle

\* sql = enforce_read_only(sql)
Check ==
    /\ guard_pc = "input"
    /\ safe' = enforce_read_only(sql)
    /\ guard_pc' = "checked"
    /\ UNCHANGED <<sql, again, appVars, extractVars>>

\* enforce_read_only(enforce_read_only(sql))
Recheck ==
    /\ guard_pc = "checked"
    /\ safe.ok
    /\ again' = enforce_read_only(safe.sql)
    /\ guard_pc' = "rechecked"
    /\ UNCHANGED <<sql, safe, appVars, extractVars>>

NextGuard == Check \/ Recheck

SpecGuard == InitGuard /\ [][NextGuard]_vars

----------------------------------------------------------------------------
(* extract_sql as a function: a response text is drawn and extracted       *)

InitExtract ==
    /\ extract_pc = "input"
    /\ text \in ExtractInputs
    /\ extracted = <<>>
    /\ AppIdle
    /\ GuardIdle

\* extract_sql(response.generations[0].text)
Extract ==
    /\ extract_pc = "input"
    /\ extracted' = extract_sql(text)
    /\ extract_pc' = "done"
    /\ UNCHANGED <<text, appVars, guardVars>>

NextExtract == Extract

SpecExtract == InitExtract /\ [][NextExtract]_vars

----------------------------------------------------------------------------
(* The application: one Streamlit session.  Every user interaction runs    *)
(* the whole script once, top to bottom, with at most one button pressed.  *)

EnvKeys == {"", "key_env"}
Keys == {"", "key_env", "key_user"}
Questions == {"", "Show top 5 rows of my_table"}
TableNames == {"my_table", "users"}

\* "I cannot answer that."
Prose == <<"I", " ", "cannot", " ", "answer", " ", "that">>
\* "<fence>sql\nDROP TABLE users\n<fence>"
FencedDrop == <<Fence, "sql", "\n", "DROP", " ", "TABLE", " ", "users", "\n", Fence>>

\* what the generation service may answer
Responses ==
    {FencedAnswer, BareAnswer, FencedDrop, Prose, Scenario3, Scenario5,
     NestedLimit, PaddedSelect}

\* the generation service: an answer or a failure
ServiceOutcomes ==
    {[ok |-> TRUE, text |-> r] : r \in Responses}
        \cup {[ok |-> FALSE, text |-> NoText]}

\* the storage engine on the generated query: rows, no rows, or an error
EngineOutcomes == {"rows", "empty", "error"}

UpdateBtn == "Update API Key"
ClearBtn == "Clear all tables"
UploadBtn == "Upload Table"
DeleteBtn == "Delete"
RenameBtn == "Rename Table"
GenerateBtn == "Generate SQL & Run"
NoBtn == "none"

\* COHERE_API_KEY when the sidebar is done: read from the environment at the
\* top of the script, reassigned when "Update API Key" is the pressed button
KeyAfterSidebar(btn) == IF btn = UpdateBtn THEN api_key_input ELSE env_key

\* co when the sidebar is done: cohere.Client(COHERE_API_KEY) at the top of
\* the script, rebuilt when "Update API Key" is the pressed button
ClientAfterSidebar(btn) == IF btn = UpdateBtn THEN api_key_input ELSE env_key

HandleGenerateUnguarded(client_key, schema, q, svc, eng) ==
    LET called == [IdleRun EXCEPT !.gen_calls = 1, !.gen_key = client_key,
                                  !.prompt = [schema |-> schema, question |-> q],
                                  !.svc = IF svc.ok THEN "ok" ELSE "error"]
    IN  IF ~svc.ok
        THEN [called EXCEPT !.errors = <<"Error: generation service">>]
        ELSE LET cand == extract_sql(svc.text)
                 run3 == [called EXCEPT !.response = svc.text,
                                        !.candidate = cand,
                                        !.sql_shown = TRUE, !.exec_calls = 1,
                                        !.executed = cand, !.eng = eng]
             IN  CASE eng = "error" ->
                        [run3 EXCEPT !.errors = <<"Error: execution">>]
                   [] eng = "rows" -> [run3 EXCEPT !.result_shown = TRUE]
                   [] eng = "empty" -> [run3 EXCEPT !.info_shown = TRUE]

HandleGenerateRunsRejected(client_key, schema, q, svc, eng) ==
    LET called == [IdleRun EXCEPT !.gen_calls = 1, !.gen_key = client_key,
                                  !.prompt = [schema |-> schema, question |-> q],
                                  !.svc = IF svc.ok THEN "ok" ELSE "error"]
    IN  IF ~svc.ok
        THEN [called EXCEPT !.errors = <<"Error: generation service">>]
        ELSE LET cand == extract_sql(svc.text)
                 g == enforce_read_only(cand)
                 run2 == [called EXCEPT !.response = svc.text,
                                        !.candidate = cand,
                                        !.guard_calls = 1, !.guard = g,
                                        !.errors = IF g.ok THEN <<>>
                                                   ELSE <<"Error: " \o g.error>>]
                 run3 == [run2 EXCEPT !.sql_shown = TRUE, !.exec_calls = 1,
                                      !.executed = IF g.ok THEN g.sql ELSE cand,
                                      !.eng = eng]
             IN  CASE eng = "error" ->
                        [run3 EXCEPT !.errors = @ \o <<"Error: execution">>]
                   [] eng = "rows" -> [run3 EXCEPT !.result_shown = TRUE]
                   [] eng = "empty" -> [run3 EXCEPT !.info_shown = TRUE]

\* the body of "if st.button('Generate SQL & Run') and question:", one
\* try block: schema, generate_sql_cohere, enforce_read_only, pd.read_sql,
\* display; any exception ends the block in st.error
HandleGenerate(client_key, schema, q, svc, eng) ==
    LET called == [IdleRun EXCEPT !.gen_calls = 1, !.gen_key = client_key,
                                  !.prompt = [schema |-> schema, question |-> q],
                                  !.svc = IF svc.ok THEN "ok" ELSE "error"]
    IN  IF ~svc.ok
        THEN [called EXCEPT !.errors = <<"Error: generation service">>]
        ELSE LET cand == extract_sql(svc.text)
                 g == enforce_read_only(cand)
                 run2 == [called EXCEPT !.response = svc.text,
                                        !.candidate = cand,
                                        !.guard_calls = 1, !.guard = g]
             IN  IF ~g.ok
                 THEN [run2 EXCEPT !.errors = <<"Error: " \o g.error>>]
                 ELSE LET run3 == [run2 EXCEPT !.sql_shown = TRUE,
                                               !.exec_calls = 1,
                                               !.executed = g.sql,
                                               !.eng = eng]
                      IN  CASE eng = "error" ->
                                 [run3 EXCEPT !.errors = <<"Error: execution">>]
                            [] eng = "rows" ->
                                 [run3 EXCEPT !.result_shown = TRUE]
                            [] eng = "empty" ->
                                 [run3 EXCEPT !.info_shown = TRUE]

Init ==
    /\ env_key \in EnvKeys
    /\ COHERE_API_KEY = env_key
    /\ co = env_key
    /\ api_key_input = env_key
    /\ question = ""
    /\ tables = {}
    /\ button = "start"
    /\ run = IdleRun
    /\ updated_key = NoKey
    /\ GuardIdle
    /\ ExtractIdle

\* what every script run does whatever the trigger: the top of the script
\* and the sidebar's key handling
ScriptRun(btn) ==
    /\ button' = btn
    /\ COHERE_API_KEY' = KeyAfterSidebar(btn)
    /\ co' = ClientAfterSidebar(btn)
    /\ UNCHANGED <<env_key, guardVars, extractVars>>

\* the user types into the "Cohere API Key" field
EditApiKeyInput(k) ==
    /\ k # api_key_input
    /\ api_key_input' = k
    /\ ScriptRun(NoBtn)
    /\ run' = IdleRun
    /\ UNCHANGED <<question, tables, updated_key>>

\* the user types into the question area
EditQuestion(q) ==
    /\ q # question
    /\ question' = q
    /\ ScriptRun(NoBtn)
    /\ run' = IdleRun
    /\ UNCHANGED <<api_key_input, tables, updated_key>>

\* "Update API Key"
UpdateApiKey ==
    /\ ScriptRun(UpdateBtn)
    /\ updated_key' = api_key_input
    /\ run' = IdleRun
    /\ UNCHANGED <<api_key_input, question, tables>>

\* "Clear all tables"
ClearAllTables ==
    /\ ScriptRun(ClearBtn)
    /\ tables' = {}
    /\ run' = IdleRun
    /\ UNCHANGED <<api_key_input, question, updated_key>>

\* "Upload Table": the file parses and replaces the table, or st.error
UploadTable(name, parses) ==
    /\ ScriptRun(UploadBtn)
    /\ tables' = IF parses THEN tables \cup {name} ELSE tables
    /\ run' = IF parses THEN IdleRun
              ELSE [IdleRun EXCEPT !.errors = <<"Failed to create table">>]
    /\ UNCHANGED <<api_key_input, question, updated_key>>

\* "Delete '<table>'"
DeleteTable(t) ==
    /\ t \in tables
    /\ ScriptRun(DeleteBtn)
    /\ tables' = tables \ {t}
    /\ run' = IdleRun
    /\ UNCHANGED <<api_key_input, question, updated_key>>

\* "Rename Table": ALTER TABLE fails on a name already taken, outside any
\* try block
RenameTable(t, n) ==
    /\ t \in tables
    /\ ScriptRun(RenameBtn)
    /\ tables' = IF n \in tables THEN tables ELSE (tables \ {t}) \cup {n}
    /\ run' = [IdleRun EXCEPT !.uncaught = (n \in tables)]
    /\ UNCHANGED <<api_key_input, question, updated_key>>

\* "Generate SQL & Run" pressed with an empty question: the handler is skipped
GenerateWithoutQuestion ==
    /\ question = ""
    /\ ScriptRun(GenerateBtn)
    /\ run' = IdleRun
    /\ UNCHANGED <<api_key_input, question, tables, updated_key>>

\* "Generate SQL & Run" pressed with a question
GenerateSQLAndRun(svc, eng) ==
    /\ question # ""
    /\ ScriptRun(GenerateBtn)
    /\ run' = HandleGenerate(ClientAfterSidebar(GenerateBtn), tables, question,
                             svc, eng)
    /\ UNCHANGED <<api_key_input, question, tables, updated_key>>

Next ==
    \/ \E k \in Keys : EditApiKeyInput(k)
    \/ \E q \in Questions : EditQuestion(q)
    \/ UpdateApiKey
    \/ ClearAllTables
    \/ \E n \in TableNames, parses \in BOOLEAN : UploadTable(n, parses)
    \/ \E t \in TableNames : DeleteTable(t)
    \/ \E t \in TableNames, n \in TableNames : RenameTable(t, n)
    \/ GenerateWithoutQuestion
    \/ \E svc \in ServiceOutcomes, eng \in EngineOutcomes :
           GenerateSQLAndRun(svc, eng)

Spec == Init /\ [][Next]_vars

----------------------------------------------------------------------------
(* Vocabulary of the properties                                            *)

\* positions where the word W stands as a whole word, in any letter case
WholeWords(s, W) == {i \in 1..Len(s) : Fold(s[i]) = W /\ WholeWordAt(s, i)}

LimitCount(s) == Cardinality(WholeWords(s, "LIMIT"))

SemicolonCount(s) == Cardinality({i \in 1..Len(s) : s[i] = ";"})

Denylist ==
    {"INSERT", "UPDATE", "DELETE", "ALTER", "DROP", "TRUNCATE", "VACUUM",
     "CREATE", "GRANT", "REVOKE", "COPY"}

ContainsDenylisted(s) == \E W \in Denylist : WholeWords(s, W) # {}

\* the first thing after leading whitespace is the word SELECT
BeginsWithSelect(s) ==
    \E k \in 1..Len(s) :
        /\ \A j \in 1..(k - 1) : s[j] \in Whitespace
        /\ k \in WholeWords(s, "SELECT")

EndsWith(s, tail) ==
    /\ Len(s) >= Len(tail)
    /\ SubSeq(s, Len(s) - Len(tail) + 1, Len(s)) = tail

\* r is s without its leading and trailing whitespace
IsTrimOf(r, s) ==
    \E lo \in 1..(Len(s) + 1) : \E hi \in 0..Len(s) :
        /\ r = SubSeq(s, lo, hi)
        /\ \A j \in 1..(lo - 1) : s[j] \in Whitespace
        /\ \A j \in (hi + 1)..Len(s) : s[j] \in Whitespace
        /\ r # <<>> => r[1] \notin Whitespace /\ r[Len(r)] \notin Whitespace

\* r is s without its trailing whitespace and then without the semicolons
\* that end it; whatever starts s, whitespace included, starts r
IsRightTrimNoSemicolon(r, s) ==
    \E k \in 0..Len(s) : \E m \in k..Len(s) :
        /\ r = SubSeq(s, 1, k)
        /\ \A j \in (k + 1)..m : s[j] = ";"
        /\ \A j \in (m + 1)..Len(s) : s[j] \in Whitespace
        /\ k > 0 => s[k] # ";"
        /\ (m = k /\ k > 0) => s[k] \notin Whitespace

\* the rejection causes of the Guard, told apart by the message raised
CauseOf(msg) ==
    CASE msg = ErrForbidden -> "forbidden_keyword"
      [] msg = ErrMultiple  -> "multiple_statements"
      [] msg = ErrNotSelect -> "not_a_select"
      [] OTHER              -> "none"

Checked == guard_pc \in {"checked", "rechecked"}

PassesChecks(s) ==
    ~FORBIDDEN_search(s) /\ count_semicolon(s) <= 1 /\ match_select(s)

\* two SELECT statements with a semicolon between them
TwoStatements(s) ==
    \E i \in 1..Len(s) :
        /\ s[i] = ";"
        /\ BeginsWithSelect(SubSeq(s, 1, i - 1))
        /\ BeginsWithSelect(SubSeq(s, i + 1, Len(s)))

----------------------------------------------------------------------------
(* Properties of enforce_read_only, under SpecGuard                        *)

\* C2, as amended: every string the Guard returns begins (after leading
\* whitespace) with the word SELECT, holds at most one semicolon, holds no
\* denylisted keyword as a whole word in any case, and holds at least one
\* whole-word LIMIT: a candidate that had one or more comes back verbatim,
\* a candidate that had none comes back with exactly one, the appended
\* " LIMIT 100".
C2_OutputGuarantee ==
    (Checked /\ safe.ok) =>
        /\ BeginsWithSelect(safe.sql)
        /\ SemicolonCount(safe.sql) <= 1
        /\ ~ContainsDenylisted(safe.sql)
        /\ LimitCount(safe.sql) >= 1
        /\ LimitCount(sql) >= 1 => safe.sql = sql
        /\ LimitCount(sql) = 0 =>
               LimitCount(safe.sql) = 1 /\ EndsWith(safe.sql, LIMIT_100)

\* C2 as stated: ... and the returned string holds exactly one LIMIT.
C2_ExactlyOneLimit ==
    (Checked /\ safe.ok) =>
        /\ BeginsWithSelect(safe.sql)
        /\ SemicolonCount(safe.sql) <= 1
        /\ ~ContainsDenylisted(safe.sql)
        /\ LimitCount(safe.sql) = 1

\* a candidate with an inner and an outer LIMIT was returned verbatim
C2_Witness ==
    /\ guard_pc = "checked"
    /\ sql = NestedLimit
    /\ safe.ok
    /\ safe.sql = NestedLimit
    /\ LimitCount(safe.sql) = 2

\* C3: a candidate made of two statements separated by a semicolon is
\* never returned as safe SQL (the claim: it is rejected, with cause
\* multiple_statements).
C3_TwoStatementsRejected ==
    (Checked /\ TwoStatements(sql)) => ~safe.ok

\* C4: a candidate that holds a denylisted keyword as a whole word, in any
\* letter case, is rejected with cause forbidden_keyword whatever else it
\* holds.
C4_DenylistedRejected ==
    (Checked /\ ContainsDenylisted(sql)) =>
        ~safe.ok /\ CauseOf(safe.error) = "forbidden_keyword"

\* a lower-case keyword inside an otherwise well-formed SELECT was rejected
C4_Witness ==
    /\ guard_pc = "checked"
    /\ sql = <<"SELECT", " ", "update", ";">>
    /\ ~safe.ok
    /\ safe.error = ErrForbidden

\* C5: the checks run in the order denylist, multiple statements, statement
\* shape, and the first one that fails gives the cause; the three causes
\* are distinct; a candidate past the first two checks that does not begin
\* with SELECT after leading whitespace fails with not_a_select.
C5_FirstFailingCheckWins ==
    Checked =>
        /\ FORBIDDEN_search(sql) =>
               ~safe.ok /\ CauseOf(safe.error) = "forbidden_keyword"
        /\ (~FORBIDDEN_search(sql) /\ count_semicolon(sql) > 1) =>
               ~safe.ok /\ CauseOf(safe.error) = "multiple_statements"
        /\ (~FORBIDDEN_search(sql) /\ count_semicolon(sql) <= 1
               /\ ~match_select(sql)) =>
               ~safe.ok /\ CauseOf(safe.error) = "not_a_select"
        /\ (~FORBIDDEN_search(sql) /\ count_semicolon(sql) <= 1
               /\ ~BeginsWithSelect(sql)) =>
               ~safe.ok /\ CauseOf(safe.error) = "not_a_select"
        /\ Cardinality({ErrForbidden, ErrMultiple, ErrNotSelect}) = 3

\* a candidate failing all three checks was reported as forbidden_keyword
C5_Witness ==
    /\ guard_pc = "checked"
    /\ FORBIDDEN_search(sql)
    /\ count_semicolon(sql) > 1
    /\ ~match_select(sql)
    /\ CauseOf(safe.error) = "forbidden_keyword"

\* C6, as amended: a candidate that passes the three checks and holds no
\* whole-word LIMIT is returned as the input without its trailing
\* whitespace and trailing semicolon (leading whitespace is kept), followed
\* by " LIMIT 100" exactly once; it is never rejected.
C6_LimitAppended ==
    (Checked /\ PassesChecks(sql) /\ LimitCount(sql) = 0) =>
        /\ safe.ok
        /\ \E r \in {SubSeq(sql, 1, k) : k \in 0..Len(sql)} :
               IsRightTrimNoSemicolon(r, sql) /\ safe.sql = r \o LIMIT_100
        /\ LimitCount(safe.sql) = 1

\* C6 as stated: the output is the trimmed input (both ends), without its
\* trailing semicolon, followed by " LIMIT 100".
C6_TrimmedBothEnds ==
    (Checked /\ PassesChecks(sql) /\ LimitCount(sql) = 0) =>
        /\ safe.ok
        /\ \E t \in {SubSeq(sql, lo, hi) : lo \in 1..(Len(sql) + 1), hi \in 0..Len(sql)} :
               /\ IsTrimOf(t, sql)
               /\ safe.sql = rstrip_semicolon(t) \o LIMIT_100

\* a candidate with leading whitespace and a trailing semicolon got the cap
C6_Witness ==
    /\ guard_pc = "checked"
    /\ sql = <<" ", "SELECT", ";", " ">>
    /\ safe.ok
    /\ safe.sql = <<" ", "SELECT", " ", "LIMIT", " ", "100">>

\* C7: the Guard applied to what it returned succeeds and returns the same
\* string.
C7_Idempotent ==
    guard_pc = "rechecked" => again.ok /\ again.sql = safe.sql

\* the Guard was applied again to an output it had appended the cap to
C7_Witness ==
    /\ guard_pc = "rechecked"
    /\ LimitCount(sql) = 0
    /\ sql # <<>>
    /\ sql[Len(sql)] = ";"
    /\ again.ok
    /\ EndsWith(again.sql, LIMIT_100)

----------------------------------------------------------------------------
(* Properties of extract_sql, under SpecExtract                            *)

\* <<i, j>>: an opening fence at i tagged sql (any case) and the next fence
\* after the tag, at j, closing it
FencedBlocks(t) ==
    {b \in (1..Len(t)) \X (1..Len(t)) :
        /\ b[1] + 1 < b[2]
        /\ t[b[1]] = Fence
        /\ Fold(t[b[1] + 1]) = "SQL"
        /\ t[b[2]] = Fence
        /\ \A j \in (b[1] + 2)..(b[2] - 1) : t[j] # Fence}

----------------------------------------------------------------------------
(* Properties of the application, under Spec                               *)

\* the last script run entered the "Generate SQL & Run" handler
Generated == button = GenerateBtn /\ run.gen_calls > 0

\* C1: generated text reaches the storage engine only as the value the
\* Guard returned for the extracted candidate of the same run: a query is
\* executed only after enforce_read_only returned, with exactly the string
\* it returned, and no other script run executes generated text.
C1_OnlyGuardOutputExecuted ==
    /\ run.exec_calls > 0 =>
           /\ Generated
           /\ run.candidate = extract_sql(run.response)
           /\ run.guard_calls = 1
           /\ run.guard = enforce_read_only(run.candidate)
           /\ run.guard.ok
           /\ run.executed = run.guard.sql
    /\ run.exec_calls = 0 => run.executed = NoText

\* a fenced answer was extracted, capped by the Guard and then executed
C1_Witness ==
    /\ Generated
    /\ run.response = FencedAnswer
    /\ run.exec_calls = 1
    /\ run.executed # run.candidate
    /\ run.executed = Scenario1 \o LIMIT_100

\* C9: one "Generate SQL & Run" has no partial success: a failure of the
\* generation service, a rejection by the Guard or a failure of the
\* execution is caught by the handler, shows exactly one error message,
\* keeps every later stage from running, is not retried, and the session
\* takes the next user action.
C9_NoPartialSuccess ==
    Generated =>
        /\ run.gen_calls = 1 /\ run.guard_calls <= 1 /\ run.exec_calls <= 1
        /\ ~run.uncaught
        /\ Len(run.errors) <= 1
        /\ run.svc = "error" =>
               /\ run.guard_calls = 0 /\ run.exec_calls = 0
               /\ ~run.sql_shown /\ ~run.result_shown /\ ~run.info_shown
               /\ Len(run.errors) = 1
        /\ (run.guard_calls = 1 /\ ~run.guard.ok) =>
               /\ run.exec_calls = 0
               /\ ~run.sql_shown /\ ~run.result_shown /\ ~run.info_shown
               /\ Len(run.errors) = 1
        /\ (run.exec_calls = 1 /\ run.eng = "error") =>
               /\ ~run.result_shown /\ ~run.info_shown
               /\ Len(run.errors) = 1
        /\ run.errors = <<>> =>
               /\ run.svc = "ok" /\ run.guard.ok /\ run.exec_calls = 1
               /\ run.eng \in {"rows", "empty"}
               /\ run.result_shown # run.info_shown
        /\ ENABLED Next

\* a run rejected by the Guard showed one error and executed nothing
C9_Witness ==
    /\ Generated
    /\ run.response = FencedDrop
    /\ ~run.guard.ok
    /\ run.errors = <<"Error: " \o ErrForbidden>>
    /\ run.exec_calls = 0

\* C10: once a key was supplied with "Update API Key", every later
\* "Generate SQL & Run" calls the generation service with a client built
\* from that key.
C10_UpdatedKeyUsed ==
    (Generated /\ updated_key # NoKey) => run.gen_key = updated_key

====
